---- MODULE Spec2Model ----
(***************************************************************************)
(* A model of crates/cuda_std/src/thread.rs: the coordinate accessors, the *)
(* global index calculator (index, index_2d, index_3d, first) and the      *)
(* block barrier wrappers (sync_threads and its predicate variants).       *)
(*                                                                         *)
(* Two specifications share the variables:                                 *)
(*   Spec         one thread of one launch calls the index functions;      *)
(*   SpecBarrier  the threads of one block run a small kernel around one   *)
(*                barrier call site.                                       *)
(***************************************************************************)
EXTENDS Integers, FiniteSets, Sequences, TLC

(***************************************************************************)
(* Bounds.  The register width and the usize width are scaled down; usize  *)
(* stays twice as wide as a register, as on nvptx64 (u32 registers, 64-bit *)
(* usize).                                                                 *)
(***************************************************************************)
U32Bits == 3
MaxGridDim == 2
MaxBlockDim == 4
MaxThreads == 128

UsizeBits == 2 * U32Bits
U32Modulus == 2 ^ U32Bits
UsizeModulus == 2 ^ UsizeBits
UsizeMax == UsizeModulus - 1

BlockThreads == 3

VARIABLES
    nvvm,     \* the special registers of the calling thread: four 3-tuples of u32
    ret,      \* the last call of the calling thread and what it returned
    kernel,   \* the barrier function the kernel's one barrier call site calls
    pc,       \* per thread of the block: "run", "wait" (inside the call), "done", "exit"
    arr,      \* per thread: the reduction and the predicate it arrived at the barrier with
    released, \* whether the barrier has completed
    result,   \* per thread: what its barrier call returned
    mem,      \* global / shared memory, one cell per thread of the block
    buf,      \* per thread: its writes not yet visible to the other threads
    last,     \* per cell: the last value written to it (0: never written)
    rd        \* per thread: its last read after the barrier

barvars == <<kernel, pc, arr, released, result, mem, buf, last, rd>>
vars == <<nvvm, ret, kernel, pc, arr, released, result, mem, buf, last, rd>>

----------------------------------------------------------------------------
(* vek::Vec3 / vek::Vec2 as records; Vec3::zero and Vec3::product.          *)
Vec3(a, b, c) == [x |-> a, y |-> b, z |-> c]
Vec2(a, b) == [x |-> a, y |-> b]
Vec3Zero == Vec3(0, 0, 0)

(* `as usize` on a u32: a zero extension, or a truncation were usize narrower. *)
AsUsize(v) == v % UsizeModulus

WrapU32(n) == n % U32Modulus

(* usize arithmetic: the wrapped result of one operation.                   *)
Wrap(n) == n % UsizeModulus

(* The accessors: one register read each, cast to usize.                    *)
thread_idx_x(r) == AsUsize(r.thread_idx.x)
thread_idx_y(r) == AsUsize(r.thread_idx.y)
thread_idx_z(r) == AsUsize(r.thread_idx.z)
block_idx_x(r) == AsUsize(r.block_idx.x)
block_idx_y(r) == AsUsize(r.block_idx.y)
block_idx_z(r) == AsUsize(r.block_idx.z)
block_dim_x(r) == AsUsize(r.block_dim.x)
block_dim_y(r) == AsUsize(r.block_dim.y)
block_dim_z(r) == AsUsize(r.block_dim.z)
grid_dim_x(r) == AsUsize(r.grid_dim.x)
grid_dim_y(r) == AsUsize(r.grid_dim.y)
grid_dim_z(r) == AsUsize(r.grid_dim.z)

thread_idx(r) ==
    Vec3(AsUsize(r.thread_idx.x), AsUsize(r.thread_idx.y), AsUsize(r.thread_idx.z))
block_idx(r) ==
    Vec3(AsUsize(r.block_idx.x), AsUsize(r.block_idx.y), AsUsize(r.block_idx.z))
block_dim(r) ==
    Vec3(AsUsize(r.block_dim.x), AsUsize(r.block_dim.y), AsUsize(r.block_dim.z))
grid_dim(r) ==
    Vec3(AsUsize(r.grid_dim.x), AsUsize(r.grid_dim.y), AsUsize(r.grid_dim.z))

----------------------------------------------------------------------------
(* index(): every operation of the expression, in evaluation order.  `val` *)
(* is the wrapped result; `raw` lists the unwrapped result of each single  *)
(* operation on its (wrapped) operands, so an element above UsizeMax is an *)
(* overflow of that operation.                                             *)
index_y_first(r) ==
    LET gd == grid_dim(r)
        bi == block_idx(r)
        bd == block_dim(r)
        ti == thread_idx(r)
        m1 == bi.x * gd.y
        s1 == bi.y + Wrap(m1)
        m2 == gd.x * gd.y
        m3 == Wrap(m2) * bi.z
        bid == Wrap(s1) + Wrap(m3)
        p1 == bd.x * bd.y
        p2 == Wrap(p1) * bd.z
        m4 == Wrap(bid) * Wrap(p2)
        m5 == bd.x * bd.y
        m6 == ti.z * Wrap(m5)
        s2 == Wrap(m4) + Wrap(m6)
        m7 == ti.x * bd.y
        s3 == Wrap(s2) + Wrap(m7)
        s4 == Wrap(s3) + ti.y
    IN  [val |-> Wrap(s4),
         raw |-> <<m1, s1, m2, m3, bid, p1, p2, m4, m5, m6, s2, m7, s3, s4>>]

index_block_dim_flatten(r) ==
    LET gd == grid_dim(r)
        bi == block_idx(r)
        bd == block_dim(r)
        ti == thread_idx(r)
        m1 == bi.y * bd.x
        s1 == bi.x + Wrap(m1)
        m2 == bd.x * bd.y
        m3 == Wrap(m2) * bi.z
        bid == Wrap(s1) + Wrap(m3)
        p1 == bd.x * bd.y
        p2 == Wrap(p1) * bd.z
        m4 == Wrap(bid) * Wrap(p2)
        m5 == bd.x * bd.y
        m6 == ti.z * Wrap(m5)
        s2 == Wrap(m4) + Wrap(m6)
        m7 == ti.y * bd.x
        s3 == Wrap(s2) + Wrap(m7)
        s4 == Wrap(s3) + ti.x
    IN  [val |-> Wrap(s4),
         raw |-> <<m1, s1, m2, m3, bid, p1, p2, m4, m5, m6, s2, m7, s3, s4>>]

index(r) ==
    LET gd == grid_dim(r)
        bi == block_idx(r)
        bd == block_dim(r)
        ti == thread_idx(r)
        \* let block_id = block_idx.x + block_idx.y * grid_dim.x
        \*                    + grid_dim.x * grid_dim.y * block_idx.z;
        m1 == bi.y * gd.x
        s1 == bi.x + Wrap(m1)
        m2 == gd.x * gd.y
        m3 == Wrap(m2) * bi.z
        bid == Wrap(s1) + Wrap(m3)
        \* block_dim.product()
        p1 == bd.x * bd.y
        p2 == Wrap(p1) * bd.z
        \* block_id * block_dim.product()
        m4 == Wrap(bid) * Wrap(p2)
        \* + (thread_idx.z * (block_dim.x * block_dim.y))
        m5 == bd.x * bd.y
        m6 == ti.z * Wrap(m5)
        s2 == Wrap(m4) + Wrap(m6)
        \* + (thread_idx.y * block_dim.x) + thread_idx.x
        m7 == ti.y * bd.x
        s3 == Wrap(s2) + Wrap(m7)
        s4 == Wrap(s3) + ti.x
    IN  [val |-> Wrap(s4),
         raw |-> <<m1, s1, m2, m3, bid, p1, p2, m4, m5, m6, s2, m7, s3, s4>>]

index_2d_swapped(r) ==
    LET mi == block_idx_x(r) * block_dim_x(r)
        i == thread_idx_x(r) + Wrap(mi)
        mj == block_idx_y(r) * block_dim_y(r)
        j == thread_idx_y(r) + Wrap(mj)
    IN  [val |-> Vec2(Wrap(j), Wrap(i)), raw |-> <<mi, i, mj, j>>]

index_2d(r) ==
    LET mi == block_idx_x(r) * block_dim_x(r)
        i == thread_idx_x(r) + Wrap(mi)
        mj == block_idx_y(r) * block_dim_y(r)
        j == thread_idx_y(r) + Wrap(mj)
    IN  [val |-> Vec2(Wrap(i), Wrap(j)), raw |-> <<mi, i, mj, j>>]

index_3d_grid_dim(r) ==
    LET mi == block_idx_x(r) * grid_dim_x(r)
        i == thread_idx_x(r) + Wrap(mi)
        mj == block_idx_y(r) * grid_dim_y(r)
        j == thread_idx_y(r) + Wrap(mj)
        mk == block_idx_z(r) * grid_dim_z(r)
        k == thread_idx_z(r) + Wrap(mk)
    IN  [val |-> Vec3(Wrap(i), Wrap(j), Wrap(k)), raw |-> <<mi, i, mj, j, mk, k>>]

index_3d(r) ==
    LET mi == block_idx_x(r) * block_dim_x(r)
        i == thread_idx_x(r) + Wrap(mi)
        mj == block_idx_y(r) * block_dim_y(r)
        j == thread_idx_y(r) + Wrap(mj)
        mk == block_idx_z(r) * block_dim_z(r)
        k == thread_idx_z(r) + Wrap(mk)
    IN  [val |-> Vec3(Wrap(i), Wrap(j), Wrap(k)), raw |-> <<mi, i, mj, j, mk, k>>]

first_either_zero(r) == block_idx(r) = Vec3Zero \/ thread_idx(r) = Vec3Zero

first(r) == block_idx(r) = Vec3Zero /\ thread_idx(r) = Vec3Zero

(* Whether some operation of an evaluation overflowed usize.               *)
Overflows(e) == \E i \in 1..Len(e.raw) : e.raw[i] > UsizeMax

(* What a call can produce: the wrapped value (a build without overflow    *)
(* checks) or, when an operation overflows, a panic (a build with them).   *)
Outcomes(e) ==
    {[panicked |-> FALSE, val |-> e.val]}
        \cup (IF Overflows(e) THEN {[panicked |-> TRUE, val |-> 0]} ELSE {})

----------------------------------------------------------------------------
(* The launches and their threads.                                         *)
Dims(max) == {Vec3(a, b, c) : a \in 1..max, b \in 1..max, c \in 1..max}
Product(v) == v.x * v.y * v.z
Below(d) == {Vec3(a, b, c) : a \in 0..(d.x - 1), b \in 0..(d.y - 1), c \in 0..(d.z - 1)}

Launches ==
    {l \in [grid_dim : Dims(MaxGridDim), block_dim : Dims(MaxBlockDim)] :
        /\ Product(l.grid_dim) * Product(l.block_dim) <= MaxThreads
        /\ \A v \in {l.grid_dim, l.block_dim} :
              v.x < U32Modulus /\ v.y < U32Modulus /\ v.z < U32Modulus}

ThreadsOf(gd, bd) ==
    {[thread_idx |-> ti, block_idx |-> bi, block_dim |-> bd, grid_dim |-> gd] :
        ti \in Below(bd), bi \in Below(gd)}

TotalThreads(r) == Product(r.grid_dim) * Product(r.block_dim)

NoCall == [op |-> "none", panicked |-> FALSE, val |-> 0]

BThreads == 1..BlockThreads
NoArrival == [kind |-> "none", pred |-> 0]
NoRead == [loc |-> 0, val |-> 0]

BarrierIdle ==
    /\ pc = [t \in BThreads |-> "run"]
    /\ arr = [t \in BThreads |-> NoArrival]
    /\ released = FALSE
    /\ result = [t \in BThreads |-> 0]
    /\ mem = [c \in BThreads |-> 0]
    /\ buf = [t \in BThreads |-> <<>>]
    /\ last = [c \in BThreads |-> 0]
    /\ rd = [t \in BThreads |-> NoRead]

Init ==
    /\ \E l \in Launches : nvvm \in ThreadsOf(l.grid_dim, l.block_dim)
    /\ ret = NoCall
    /\ kernel = "none"
    /\ BarrierIdle

CallIndex ==
    /\ \E o \in Outcomes(index(nvvm)) :
          ret' = [op |-> "index", panicked |-> o.panicked, val |-> o.val]
    /\ UNCHANGED <<nvvm, barvars>>

CallIndex2d ==
    /\ \E o \in Outcomes(index_2d(nvvm)) :
          ret' = [op |-> "index_2d", panicked |-> o.panicked, val |-> o.val]
    /\ UNCHANGED <<nvvm, barvars>>

CallIndex3d ==
    /\ \E o \in Outcomes(index_3d(nvvm)) :
          ret' = [op |-> "index_3d", panicked |-> o.panicked, val |-> o.val]
    /\ UNCHANGED <<nvvm, barvars>>

CallFirst ==
    /\ ret' = [op |-> "first", panicked |-> FALSE, val |-> first(nvvm)]
    /\ UNCHANGED <<nvvm, barvars>>

Next == CallIndex \/ CallIndex2d \/ CallIndex3d \/ CallFirst

Spec == Init /\ [][Next]_vars

----------------------------------------------------------------------------
(* The block barrier.  The hardware side (arrival, completion, release,    *)
(* the reductions, the memory system) follows the specification's sections *)
(* 4.3 and 5; the wrappers of thread.rs choose which intrinsic is called.  *)
Preds == {0, 1, 2}
WriteVals == {1, 2}

(* A thread arrives at the barrier and blocks in the call.                 *)
barrier0(t, kind, predicate) ==
    /\ pc[t] = "run"
    /\ pc' = [pc EXCEPT ![t] = "wait"]
    /\ arr' = [arr EXCEPT ![t] = [kind |-> kind, pred |-> predicate]]
    /\ UNCHANGED <<released, result, mem, buf, last, rd>>

(* The writes of a buffer applied to memory, oldest first.                 *)
RECURSIVE Apply(_, _)
Apply(m, b) ==
    IF b = <<>> THEN m
    ELSE Apply([m EXCEPT ![Head(b).loc] = Head(b).val], Tail(b))

RECURSIVE ApplyAll(_, _)
ApplyAll(m, ts) ==
    IF ts = {} THEN m
    ELSE LET t == CHOOSE u \in ts : TRUE
         IN  ApplyAll(Apply(m, buf[t]), ts \ {t})

(* The aggregate a reduction returns over the predicates of the block.     *)
Reduce(kind) ==
    CASE kind = "popc" -> Cardinality({u \in BThreads : arr[u].pred # 0})
      [] kind = "and" -> IF \A u \in BThreads : arr[u].pred # 0 THEN 1 ELSE 0
      [] kind = "or" -> IF \E u \in BThreads : arr[u].pred # 0 THEN 1 ELSE 0
      [] OTHER -> 0

(* The intrinsics thread.rs declares.                                      *)
nvvm_block_barrier(t) == barrier0(t, "sync", 0)
nvvm_sync_threads_count(t, predicate) == barrier0(t, "popc", predicate)
nvvm_sync_threads_and(t, predicate) == barrier0(t, "and", predicate)
nvvm_sync_threads_or(t, predicate) == barrier0(t, "or", predicate)

(* A memory fence: the caller's writes become visible; nobody waits.       *)
nvvm_grid_fence(t) ==
    /\ pc[t] = "run"
    /\ mem' = Apply(mem, buf[t])
    /\ buf' = [buf EXCEPT ![t] = <<>>]
    /\ pc' = [pc EXCEPT ![t] = "done"]
    /\ UNCHANGED <<arr, released, result, last, rd>>

sync_threads_returns_at_once(t) ==
    /\ pc[t] = "run"
    /\ pc' = [pc EXCEPT ![t] = "done"]
    /\ UNCHANGED <<arr, released, result, mem, buf, last, rd>>

sync_threads_fence_only(t) == nvvm_grid_fence(t)

sync_threads(t) == nvvm_block_barrier(t)

sync_threads_count_calls_and(t, predicate) == nvvm_sync_threads_and(t, predicate)

sync_threads_count(t, predicate) == nvvm_sync_threads_count(t, predicate)

sync_threads_and_calls_or(t, predicate) == nvvm_sync_threads_or(t, predicate)

sync_threads_and(t, predicate) == nvvm_sync_threads_and(t, predicate)

sync_threads_or(t, predicate) == nvvm_sync_threads_or(t, predicate)

(* The kernel: every thread may write its own cell before the barrier,     *)
(* calls the kernel's barrier function (or leaves on a path without it),   *)
(* and reads any cell after the call has returned.                         *)
Write(t) ==
    /\ kernel = "sync_threads" /\ pc[t] = "run" /\ last[t] = 0
    /\ \E v \in WriteVals :
          /\ buf' = [buf EXCEPT ![t] = Append(@, [loc |-> t, val |-> v])]
          /\ last' = [last EXCEPT ![t] = v]
    /\ UNCHANGED <<pc, arr, released, result, mem, rd, nvvm, ret, kernel>>

Drain(t) ==
    /\ buf[t] # <<>>
    /\ mem' = [mem EXCEPT ![Head(buf[t]).loc] = Head(buf[t]).val]
    /\ buf' = [buf EXCEPT ![t] = Tail(@)]
    /\ UNCHANGED <<pc, arr, released, result, last, rd, nvvm, ret, kernel>>

Read(t) ==
    /\ kernel = "sync_threads" /\ pc[t] = "done"
    /\ \E c \in BThreads :
          rd' = [rd EXCEPT ![t] = [loc |-> c, val |-> Apply(mem, buf[t])[c]]]
    /\ UNCHANGED <<pc, arr, released, result, mem, buf, last, nvvm, ret, kernel>>

CallSyncThreads(t) ==
    /\ kernel = "sync_threads"
    /\ sync_threads(t)
    /\ UNCHANGED <<nvvm, ret, kernel>>

CallSyncThreadsCount(t) ==
    /\ kernel = "sync_threads_count"
    /\ \E p \in Preds : sync_threads_count(t, p)
    /\ UNCHANGED <<nvvm, ret, kernel>>

CallSyncThreadsAnd(t) ==
    /\ kernel = "sync_threads_and"
    /\ \E p \in Preds : sync_threads_and(t, p)
    /\ UNCHANGED <<nvvm, ret, kernel>>

CallSyncThreadsOr(t) ==
    /\ kernel = "sync_threads_or"
    /\ \E p \in Preds : sync_threads_or(t, p)
    /\ UNCHANGED <<nvvm, ret, kernel>>

Diverge(t) ==
    /\ pc[t] = "run"
    /\ pc' = [pc EXCEPT ![t] = "exit"]
    /\ UNCHANGED <<arr, released, result, mem, buf, last, rd, nvvm, ret, kernel>>

BarrierComplete ==
    /\ ~released
    /\ \A t \in BThreads : pc[t] = "wait"
    /\ released' = TRUE
    /\ mem' = ApplyAll(mem, BThreads)
    /\ buf' = [t \in BThreads |-> <<>>]
    /\ UNCHANGED <<pc, arr, result, last, rd, nvvm, ret, kernel>>

Return(t) ==
    /\ released /\ pc[t] = "wait"
    /\ pc' = [pc EXCEPT ![t] = "done"]
    /\ result' = [result EXCEPT ![t] = Reduce(arr[t].kind)]
    /\ UNCHANGED <<arr, released, mem, buf, last, rd, nvvm, ret, kernel>>

Kernels == {"sync_threads", "sync_threads_count", "sync_threads_and", "sync_threads_or"}

InitBarrier ==
    /\ nvvm = [thread_idx |-> Vec3Zero, block_idx |-> Vec3Zero,
               block_dim |-> Vec3(BlockThreads, 1, 1), grid_dim |-> Vec3(1, 1, 1)]
    /\ ret = NoCall
    /\ kernel \in Kernels
    /\ BarrierIdle

NextBarrier ==
    \/ \E t \in BThreads : Write(t)
    \/ \E t \in BThreads : Drain(t)
    \/ \E t \in BThreads : CallSyncThreads(t)
    \/ \E t \in BThreads : CallSyncThreadsCount(t)
    \/ \E t \in BThreads : CallSyncThreadsAnd(t)
    \/ \E t \in BThreads : CallSyncThreadsOr(t)
    \/ \E t \in BThreads : Diverge(t)
    \/ BarrierComplete
    \/ \E t \in BThreads : Return(t)
    \/ \E t \in BThreads : Read(t)

SpecBarrier == InitBarrier /\ [][NextBarrier]_vars

----------------------------------------------------------------------------
(* Mathematical (unbounded) reference values, on the raw registers.        *)
FlatBlockId(r) ==
    r.block_idx.x + r.block_idx.y * r.grid_dim.x
        + r.block_idx.z * r.grid_dim.x * r.grid_dim.y
FlatThreadOffset(r) ==
    r.thread_idx.x + r.thread_idx.y * r.block_dim.x
        + r.thread_idx.z * r.block_dim.x * r.block_dim.y
FlatIndex(r) == FlatBlockId(r) * Product(r.block_dim) + FlatThreadOffset(r)
AxisGlobal(r, a) ==
    CASE a = "x" -> r.thread_idx.x + r.block_idx.x * r.block_dim.x
      [] a = "y" -> r.thread_idx.y + r.block_idx.y * r.block_dim.y
      [] a = "z" -> r.thread_idx.z + r.block_idx.z * r.block_dim.z

LaunchThreads == ThreadsOf(nvvm.grid_dim, nvvm.block_dim)
IndexImage == {index(t).val : t \in LaunchThreads}
SomeThreadOverflows == \E t \in LaunchThreads : Overflows(index(t))
IsFirstThread == nvvm.block_idx = Vec3Zero /\ nvvm.thread_idx = Vec3Zero
Is1D ==
    /\ nvvm.grid_dim.y = 1 /\ nvvm.grid_dim.z = 1
    /\ nvvm.block_dim.y = 1 /\ nvvm.block_dim.z = 1
Is3D ==
    /\ nvvm.grid_dim.x > 1 /\ nvvm.grid_dim.y > 1 /\ nvvm.grid_dim.z > 1
    /\ nvvm.block_dim.x > 1 /\ nvvm.block_dim.y > 1 /\ nvvm.block_dim.z > 1
Returned(op) == ret.op = op /\ ~ret.panicked

C3_FirstExactlyOne ==
    ret.op = "first" =>
        /\ ret.val <=> IsFirstThread
        /\ ret.val => Cardinality({t \in LaunchThreads : first(t)}) = 1

(* C3 witness: first() returned true in a launch of more than one block     *)
(* and more than one thread per block.                                      *)
C3_Witness ==
    /\ ret.op = "first" /\ ret.val
    /\ Product(nvvm.grid_dim) > 1 /\ Product(nvvm.block_dim) > 1

(* C8: in a 1D launch index() equals thread_idx.x + block_idx.x*block_dim.x,*)
(* which is the x component of index_2d() and of index_3d().                *)
C8_Index1D ==
    Is1D =>
        /\ ret.op = "index" =>
              /\ ~ret.panicked
              /\ ret.val = AxisGlobal(nvvm, "x")
              /\ ret.val = index_2d(nvvm).val.x
              /\ ret.val = index_3d(nvvm).val.x
        /\ ret.op \in {"index_2d", "index_3d"} =>
              /\ ~ret.panicked
              /\ ret.val.x = index(nvvm).val
              /\ ret.val.x = AxisGlobal(nvvm, "x")

(* C8 witness: index() returned in a 1D launch of several blocks, for a     *)
(* thread that is not the first of its block and not in the first block.    *)
C8_Witness ==
    /\ Is1D /\ Returned("index")
    /\ nvvm.block_idx.x > 0 /\ nvvm.thread_idx.x > 0 /\ nvvm.block_dim.x > 2

(* C9: index_2d() and index_3d() return, per axis,                          *)
(* thread_idx[axis] + block_idx[axis] * block_dim[axis], and the first two  *)
(* components of index_3d() are index_2d() of the same thread.              *)
C9_PerAxisGlobal ==
    /\ ret.op = "index_2d" =>
          /\ ~ret.panicked
          /\ ret.val = Vec2(AxisGlobal(nvvm, "x"), AxisGlobal(nvvm, "y"))
    /\ ret.op = "index_3d" =>
          /\ ~ret.panicked
          /\ ret.val = Vec3(AxisGlobal(nvvm, "x"), AxisGlobal(nvvm, "y"),
                            AxisGlobal(nvvm, "z"))
          /\ Vec2(ret.val.x, ret.val.y) = index_2d(nvvm).val

(* C9 witness: index_3d() returned for a thread with three different        *)
(* non-zero global coordinates.                                             *)
C9_Witness ==
    /\ Returned("index_3d")
    /\ ret.val.x > 0 /\ ret.val.y > 0 /\ ret.val.z > 0
    /\ ret.val.x # ret.val.y /\ ret.val.y # ret.val.z /\ ret.val.x # ret.val.z

----------------------------------------------------------------------------
AllReturned == \A t \in BThreads : pc[t] = "done"
NonZeroPreds == {u \in BThreads : arr[u].pred # 0}

C5_WritesVisibleAfterBarrier ==
    kernel = "sync_threads" =>
        \A t \in BThreads : rd[t] # NoRead => rd[t].val = last[rd[t].loc]

(* C5 witness: a thread has read, after the barrier, a value another        *)
(* thread wrote before it.                                                  *)
C5_Witness ==
    /\ kernel = "sync_threads"
    /\ \E t \in BThreads :
          /\ rd[t] # NoRead /\ rd[t].loc # t
          /\ rd[t].val # 0 /\ rd[t].val = last[rd[t].loc]

(* C6: when all N threads of the block call sync_threads_count and exactly  *)
(* k of them pass a non-zero predicate, the call returns k on every thread. *)
C6_CountIsNumberOfNonZero ==
    kernel = "sync_threads_count" =>
        \A t \in BThreads :
            pc[t] = "done" =>
                /\ \A u \in BThreads : arr[u].kind # "none"
                /\ result[t] = Cardinality(NonZeroPreds)

(* C6 witness: all threads have returned from sync_threads_count, two of    *)
(* them passed a non-zero predicate, one of these a value other than 1, and *)
(* one thread passed 0.                                                     *)
C6_Witness ==
    /\ kernel = "sync_threads_count" /\ AllReturned
    /\ Cardinality(NonZeroPreds) = 2
    /\ \E u \in BThreads : arr[u].pred = 2
    /\ \E u \in BThreads : arr[u].pred = 0

(* C7: when all N threads call the variant, sync_threads_and returns        *)
(* non-zero iff all predicates are non-zero, sync_threads_or returns        *)
(* non-zero iff some predicate is non-zero, and every thread of the block   *)
(* gets the same result.                                                    *)
C7_AndOrAggregate ==
    \A t \in BThreads :
        pc[t] = "done" =>
            /\ kernel = "sync_threads_and" =>
                  (result[t] # 0 <=> \A u \in BThreads : arr[u].pred # 0)
            /\ kernel = "sync_threads_or" =>
                  (result[t] # 0 <=> \E u \in BThreads : arr[u].pred # 0)
            /\ kernel \in {"sync_threads_and", "sync_threads_or"} =>
                  \A u \in BThreads : pc[u] = "done" => result[u] = result[t]

(* C7 witness: all threads have returned from sync_threads_and, exactly one *)
(* of them passed predicate 0.                                              *)
C7_Witness ==
    /\ kernel = "sync_threads_and" /\ AllReturned
    /\ Cardinality(NonZeroPreds) = BlockThreads - 1
    /\ \A t \in BThreads : result[t] = 0

====
